---- MODULE Spec2Model ----
(***************************************************************************)
(* Model of src/src/lev.js (elmajs): the Level class, its binary decoder   *)
(* (_parseFile, _parseTop10), its encoder (_update, _top10ToBuffer), the   *)
(* top10 cipher (cryptTop10) and the integrity sums (_calculateIntegrity). *)
(*                                                                         *)
(* Representation of JavaScript values                                     *)
(*   - a Buffer is a sequence of bytes 0..255; offset o is index o + 1;    *)
(*   - a string is the sequence of its character codes;                    *)
(*   - a 32-bit signed integer is an Int;                                  *)
(*   - a number that is written or read as an unsigned 32-bit integer      *)
(*     (link, score time) is a pair <<hi, lo>> standing for                *)
(*     hi * 65536 + lo with lo in 0..65535, because the model checker's    *)
(*     integers stop at 2^31 - 1;                                          *)
(*   - a double is an Int counting ten-millionths (DblUnit = 1.0), so the  *)
(*     biases 0.4643643 and 0.2345672 are exact; its 8 bytes are the       *)
(*     little-endian two's complement of that count (low word, then the    *)
(*     sign extension word);                                               *)
(*   - an integrity sum is a pair <<k, m>> standing for                    *)
(*     k + m * 3247.764325643 / DblUnit; its 8 bytes are k then m.         *)
(* The 8 bytes of a double are those of this representation, not those of  *)
(* IEEE 754: what a typed read gives for the bytes a write of the same     *)
(* type left is exact, what an integer read gives for the bytes of a       *)
(* double is not.                                                          *)
(***************************************************************************)
EXTENDS Integers, Sequences, FiniteSets, TLC

VARIABLES
    level,      \* the Level the application edits and saves (this of _update)
    edits,      \* number of direct mutations the application has made
    pre,        \* the Level as it was when toBuffer was called
    buffer,     \* the file: the Buffer toBuffer resolved with, or read from disk
    saved,      \* outcome of toBuffer: "none", "resolved" or the rejection
    writes,     \* the writes of the last _update: <<offset, length>> in order
    tamper,     \* what happened to the file between save and load
    loaded,     \* the Level load() builds (this of _parseFile)
    result,     \* outcome of _parseFile: "none", "resolved" or the rejection
    counts,     \* polyCount, objectCount, picCount as _parseFile computed them
    data,       \* the buffer handed to cryptTop10, replaced by its output
    input,      \* the first buffer handed to cryptTop10
    calls,      \* number of cryptTop10 calls made on data
    half,       \* a decrypted 344-byte top10 half handed to _parseTop10
    parsed      \* what _parseTop10 did with half

vars == <<level, edits, pre, buffer, saved, writes, tamper, loaded, result,
          counts, data, input, calls, half, parsed>>

----------------------------------------------------------------------------
(* Bytes, buffers and the Buffer read/write primitives                     *)

Min(a, b) == IF a < b THEN a ELSE b

RECURSIVE Xor(_, _)
\* a ^ b on non-negative integers
Xor(a, b) ==
    IF a = 0 THEN b
    ELSE IF b = 0 THEN a
    ELSE ((a + b) % 2) + 2 * Xor(a \div 2, b \div 2)

\* a ^ b on 4-bit values, tabulated
XorNibble == [a \in 0..15 |-> [b \in 0..15 |-> Xor(a, b)]]

\* a ^ b on bytes
XorByte(a, b) ==
    16 * XorNibble[a \div 16][b \div 16] + XorNibble[a % 16][b % 16]

RECURSIVE Alloc(_)
\* Buffer.alloc(n): n zero bytes
Alloc(n) ==
    IF n <= 0 THEN <<>>
    ELSE IF n = 1 THEN <<0>>
    ELSE Alloc(n \div 2) \o Alloc(n - n \div 2)

\* buffer.slice(start, end): clamped to the buffer, never throws
Slice(buf, start, end) ==
    SubSeq(buf, Min(start, Len(buf)) + 1, Min(end, Len(buf)))

\* buf after a write of bytes at offset off <= Len(buf); what would go past
\* the end of the buffer is not written
WriteAt(buf, off, bytes) ==
    SubSeq(buf, 1, off)
        \o SubSeq(bytes, 1, Min(Len(bytes), Len(buf) - off))
        \o SubSeq(buf, off + Len(bytes) + 1, Len(buf))

\* a read of n bytes at off is inside the buffer (else Node throws RangeError)
CanRead(buf, off, n) == off >= 0 /\ off + n <= Len(buf)

\* the two bytes of a 16-bit word, little-endian
U16Bytes(w) == <<w % 256, w \div 256>>

\* writeInt32LE(n): little-endian two's complement
I32Bytes(n) == U16Bytes(n % 65536) \o U16Bytes((n \div 65536) % 65536)

\* readInt32LE(off)
ReadInt32LE(buf, off) ==
    LET lo == buf[off + 1] + 256 * buf[off + 2]
        hi == buf[off + 3] + 256 * buf[off + 4]
    IN  (IF hi >= 32768 THEN hi - 65536 ELSE hi) * 65536 + lo

\* writeUInt32LE(n) of a number <<hi, lo>> in 0..2^32-1
U32Bytes(n) == U16Bytes(n[2]) \o U16Bytes(n[1])

\* readUInt32LE(off): the number <<hi, lo>>, hi in 0..65535
ReadUInt32LE(buf, off) ==
    <<buf[off + 3] + 256 * buf[off + 4], buf[off + 1] + 256 * buf[off + 2]>>

\* readInt32LE(off) as a number <<hi, lo>>, hi in -32768..32767
ReadInt32LEWide(buf, off) ==
    LET hi == buf[off + 3] + 256 * buf[off + 4]
    IN  <<IF hi >= 32768 THEN hi - 65536 ELSE hi,
          buf[off + 1] + 256 * buf[off + 2]>>

\* a < b on numbers <<hi, lo>>
WideLess(a, b) == a[1] < b[1] \/ (a[1] = b[1] /\ a[2] < b[2])

DblUnit == 10000000

\* writeDoubleLE(d)
DoubleBytes(d) == I32Bytes(d) \o I32Bytes(IF d < 0 THEN -1 ELSE 0)

\* readDoubleLE(off); 8 bytes that are no count of ten-millionths read as
\* 200.0 or -200.0 by the sign of the high word: a double beyond every count
\* and coordinate of the model
ReadDoubleLE(buf, off) ==
    LET lo == ReadInt32LE(buf, off)
        hi == ReadInt32LE(buf, off + 4)
    IN  IF hi = (IF lo < 0 THEN -1 ELSE 0) THEN lo
        ELSE IF hi > 0 THEN 200 * DblUnit ELSE -200 * DblUnit

\* buffer.toString('ascii'): Node clears the high bit of every byte
AsciiDecode(bytes) == SubSeq([i \in 1..Len(bytes) |-> bytes[i] % 128], 1, Len(bytes))

RECURSIVE IndexOfNull(_, _)
\* buffer.indexOf('\x00') from index i (1-based), 0 when there is none
IndexOfNull(bytes, i) ==
    IF i > Len(bytes) THEN 0
    ELSE IF bytes[i] = 0 THEN i
    ELSE IndexOfNull(bytes, i + 1)

RECURSIVE DropTrailingSpaces(_)
DropTrailingSpaces(s) ==
    IF Len(s) > 0 /\ s[Len(s)] = 32 THEN DropTrailingSpaces(SubSeq(s, 1, Len(s) - 1))
    ELSE s

\* util.trimString: the text before the first null byte, trailing spaces dropped
trimString(bytes) ==
    LET k == IndexOfNull(bytes, 1)
    IN  DropTrailingSpaces(IF k = 0 THEN bytes ELSE SubSeq(bytes, 1, k - 1))

\* util.nullpadString: exactly pad bytes, cut or filled with null bytes
nullpadString(str, pad) ==
    SubSeq(str, 1, Min(Len(str), pad)) \o Alloc(pad - Len(str))

----------------------------------------------------------------------------
(* Level.cryptTop10                                                        *)

\* a % n of JavaScript: the sign of the dividend
JsRem(a, n) == IF a >= 0 THEN a % n ELSE -((-a) % n)

\* the two key updates of one pass of the loop of cryptTop10; they read
\* nothing but the keys
cryptKeyPass(st) ==
    LET e10 == st.ebp10 + JsRem(st.ebp8, 3389) * 3389
        \* (e10 * 0x1F + 0xD3D) & 0xFFFF, taken on the low 16 bits of e10
        low == ((e10 % 65536) * 31 + 3389) % 65536
    IN  [keys  |-> <<st.ebp8>>,
         i     |-> st.i + 1,
         ebp8  |-> low - 2 * (IF low >= 32768 THEN 32768 ELSE 0),
         ebp10 |-> e10]

RECURSIVE cryptLoop(_, _)
\* for (; i < 688; i++): at most n passes from st, in order; keys collects the
\* value ebp8 has at the start of each pass. The passes are run as two halves,
\* the second from the state the first ends in, so that the evaluation does
\* not nest 688 deep.
cryptLoop(st, n) ==
    IF ~(st.i < 688) \/ n = 0 THEN [st EXCEPT !.keys = <<>>]
    ELSE IF n = 1 THEN cryptKeyPass(st)
    ELSE LET a == cryptLoop(st, n \div 2)
             b == cryptLoop(a, n - n \div 2)
         IN  [b EXCEPT !.keys = a.keys \o b.keys]

\* ebp8 at the start of pass i = 0 .. 687, seeded ebp8 = 0x15, ebp10 = 0x2637
cryptKeys ==
    cryptLoop([keys |-> <<>>, i |-> 0, ebp8 |-> 21, ebp10 |-> 9783], 688).keys

\* a variant of cryptByte that adds the key byte instead: not its own inverse
cryptByteAdd(b, ebp8) == (b + (ebp8 % 256)) % 256

\* output[i] ^= ebp8 & 0xFF
cryptByte(b, ebp8) == XorByte(b, ebp8 % 256)

\* Level.cryptTop10: a copy of buf with the passes applied; positions past
\* 687 are copied unchanged and a store past the end of a shorter buffer is
\* ignored (typed array semantics)
cryptTop10(buf) ==
    SubSeq([i \in 1..Len(buf) |->
               IF i <= 688 THEN cryptByte(buf[i], cryptKeys[i]) ELSE buf[i]],
           1, Len(buf))

----------------------------------------------------------------------------
(* Score lists: Level._top10ToBuffer and Level._parseTop10                 *)

\* the comparator of the sort in _top10ToBuffer: a.time > b.time
TimeGreater(a, b) == WideLess(b.time, a.time)

RECURSIVE InsertSorted(_, _)
\* e put behind every entry that is not greater than it
InsertSorted(sorted, e) ==
    IF sorted = <<>> THEN <<e>>
    ELSE IF TimeGreater(sorted[Len(sorted)], e)
         THEN Append(InsertSorted(SubSeq(sorted, 1, Len(sorted) - 1), e),
                     sorted[Len(sorted)])
         ELSE Append(sorted, e)

RECURSIVE SortByTime(_)
\* Array.prototype.sort with that comparator: ascending by time, stable
SortByTime(list) ==
    IF list = <<>> THEN <<>>
    ELSE InsertSorted(SortByTime(SubSeq(list, 1, Len(list) - 1)), list[Len(list)])

\* one pass of the loop of parse() on st = [buf, i]: entry i of the sorted
\* list, written to its slots when i < 10
top10Entry(st, list) ==
    IF st.i < 10
    THEN LET b1 == WriteAt(st.buf, 4 + 4 * st.i, U32Bytes(list[st.i + 1].time))
             b2 == WriteAt(b1, 44 + 15 * st.i, nullpadString(list[st.i + 1].name1, 15))
         IN  [buf |-> WriteAt(b2, 194 + 15 * st.i,
                              nullpadString(list[st.i + 1].name2, 15)),
              i   |-> st.i + 1]
    ELSE [st EXCEPT !.i = @ + 1]

RECURSIVE top10Entries(_, _, _)
\* for (let i = 0; i < self.top10[list].length; i++): at most n passes from st
top10Entries(st, list, n) ==
    IF ~(st.i < Len(list)) \/ n = 0 THEN st
    ELSE IF n = 1 THEN top10Entry(st, list)
    ELSE top10Entries(top10Entries(st, list, n \div 2), list, n - n \div 2)

\* parse(multi) of _top10ToBuffer, on the list already sorted in place
top10Half(sorted) ==
    top10Entries(
        [buf |-> WriteAt(Alloc(344), 0,
                         U32Bytes(<<0, IF Len(sorted) >= 10 THEN 10 ELSE Len(sorted)>>)),
         i   |-> 0],
        sorted, Len(sorted)).buf

\* Level._top10ToBuffer, given both lists as the sort left them
top10ToBuffer(single, multi) ==
    cryptTop10(SubSeq(top10Half(single) \o top10Half(multi), 1, 688))

\* one pass of the loop of _parseTop10; the time is read from a slice, and
\* readInt32LE on a slice shorter than 4 bytes throws RangeError
parseTop10Pass(buf, st) ==
    LET timeSlice == Slice(buf, 4 + st.i * 4, 4 + st.i * 4 + 4)
    IN  IF ~CanRead(timeSlice, 0, 4) THEN [st EXCEPT !.err = "RangeError"]
        ELSE [st EXCEPT
                !.i = st.i + 1,
                !.output = Append(st.output,
                    [time  |-> ReadInt32LEWide(timeSlice, 0),
                     name1 |-> trimString(Slice(buf, 44 + st.i * 15, 44 + st.i * 15 + 15)),
                     name2 |-> trimString(Slice(buf, 194 + st.i * 15, 194 + st.i * 15 + 15))])]

RECURSIVE parseTop10Loop(_, _, _, _)
\* for (; i < top10Count; i++) until a pass throws: at most n passes from st
parseTop10Loop(buf, top10Count, st, n) ==
    IF st.err # "" \/ ~(st.i < top10Count) \/ n = 0 THEN st
    ELSE IF n = 1 THEN parseTop10Pass(buf, st)
    ELSE parseTop10Loop(buf, top10Count,
                        parseTop10Loop(buf, top10Count, st, n \div 2),
                        n - n \div 2)

\* Level._parseTop10: [err, output]; err is "" when it returns output. Pass i
\* throws unless 8 + 4i <= Len(buf), so Len(buf) passes are never all run.
parseTop10(buf) ==
    IF ~CanRead(buf, 0, 4) THEN [err |-> "RangeError", i |-> 0, output |-> <<>>]
    ELSE parseTop10Loop(buf, ReadInt32LE(buf, 0),
                        [err |-> "", i |-> 0, output |-> <<>>], Len(buf))

----------------------------------------------------------------------------
(* The Level object                                                        *)

EOD_MARKER == 6754362

EOF_MARKER == 8674642

OBJECT_RADIUS == 4000000

StrPOT14 == <<80, 79, 84, 49, 52>>

StrPOT06 == <<80, 79, 84, 48, 54>>

\* new Level()
NewLevel ==
    [version   |-> "Elma",
     link      |-> <<0, 0>>,
     integrity |-> <<(<<0, 0>>), (<<0, 0>>), (<<0, 0>>), (<<0, 0>>)>>,
     lgr       |-> <<100, 101, 102, 97, 117, 108, 116>>,
     name      |-> <<78, 101, 119, 32, 108, 101, 118, 101, 108>>,
     ground    |-> <<103, 114, 111, 117, 110, 100>>,
     sky       |-> <<115, 107, 121>>,
     polygons  |-> << [grass |-> FALSE,
                       vertices |-> << [x |-> 10 * DblUnit, y |-> 0],
                                       [x |-> 10 * DblUnit, y |-> 7 * DblUnit],
                                       [x |-> 0, y |-> 7 * DblUnit],
                                       [x |-> 0, y |-> 0] >>] >>,
     objects   |-> << [x |-> 2 * DblUnit, y |-> 7 * DblUnit - OBJECT_RADIUS, type |-> "start"],
                      [x |-> 8 * DblUnit, y |-> 7 * DblUnit - OBJECT_RADIUS, type |-> "exit"] >>,
     pictures  |-> <<>>,
     top10     |-> [single |-> <<>>, multi |-> <<>>]]

\* the Level load() hands to _parseFile: polygons and objects emptied
EmptiedLevel == [NewLevel EXCEPT !.polygons = <<>>, !.objects = <<>>]

----------------------------------------------------------------------------
(* Level._calculateIntegrity                                               *)

RECURSIVE SumFrom(_, _)
\* values.reduce((acc, val) => acc + val, 0) from element i on
SumFrom(values, i) ==
    IF i > Len(values) THEN 0 ELSE values[i] + SumFrom(values, i + 1)

VertexSum(v) == v.x + v.y

PolygonSum(p) ==
    SumFrom([k \in 1..Len(p.vertices) |-> VertexSum(p.vertices[k])], 1)

ObjectValue(type) ==
    CASE type = "exit"   -> 1
      [] type = "apple"  -> 2
      [] type = "killer" -> 3
      [] type = "start"  -> 4
      [] OTHER           -> 0

ObjectSum(o) == o.x + o.y + ObjectValue(o.type) * DblUnit

PictureSum(p) == p.x + p.y

\* the values _getRandomInt(min, max) may return that the model draws
RandomInts(min, max) == {min, max - 1}

\* this.integrity after _calculateIntegrity, given its three random draws;
\* <<k, m>> stands for k + m * 3247.764325643 / DblUnit
calculateIntegrity(lvl, r1, r2, r3) ==
    LET sum == SumFrom([k \in 1..Len(lvl.polygons) |-> PolygonSum(lvl.polygons[k])], 1)
               + SumFrom([k \in 1..Len(lvl.objects) |-> ObjectSum(lvl.objects[k])], 1)
               + SumFrom([k \in 1..Len(lvl.pictures) |-> PictureSum(lvl.pictures[k])], 1)
    IN  << <<0, sum>>, <<r1 + 11877, -sum>>, <<r2 + 11877, -sum>>,
           <<r3 + 12112, -sum>> >>

\* writeDoubleLE of an integrity sum
IntegrityBytes(d) == I32Bytes(d[1]) \o I32Bytes(d[2])

\* readDoubleLE of an integrity sum
ReadIntegrityLE(buf, off) == <<ReadInt32LE(buf, off), ReadInt32LE(buf, off + 4)>>

----------------------------------------------------------------------------
(* Level._update (toBuffer): the encoder                                   *)

\* the bias of the polygon and object counts: 0.4643643
CountBias == 4643643

\* the bias of the picture count: 0.2345672
PictureBias == 2345672

RECURSIVE PolygonBytes(_, _)
\* the sum of 8 + 16 * vertices.length over the polygons from i on
PolygonBytes(polygons, i) ==
    IF i > Len(polygons) THEN 0
    ELSE 8 + 16 * Len(polygons[i].vertices) + PolygonBytes(polygons, i + 1)

\* a variant of bufferSize that counts 30 bytes for an object
bufferSizeLoose(lvl) ==
    850 + PolygonBytes(lvl.polygons, 1)
        + (30 * Len(lvl.objects)) + (54 * Len(lvl.pictures))

\* bufferSize of _update
bufferSize(lvl) ==
    850 + PolygonBytes(lvl.polygons, 1)
        + (28 * Len(lvl.objects)) + (54 * Len(lvl.pictures))

\* The state of the executor of _update: the buffer, the offset variable, the
\* writes made so far as <<offset, length>>, the first rejection ("" when
\* none), the exception that ended it ("" when none), and whether
\* _top10ToBuffer was called.
EncStart(lvl) ==
    [buf |-> Alloc(bufferSize(lvl)), offset |-> 0, log |-> <<>>,
     rejected |-> "", thrown |-> "", top10 |-> FALSE]

\* buffer.writeXxxLE(value, off): throws RangeError outside the buffer
PutNumber(st, off, bytes) ==
    IF st.thrown # "" THEN st
    ELSE IF ~CanRead(st.buf, off, Len(bytes)) THEN [st EXCEPT !.thrown = "RangeError"]
    ELSE [st EXCEPT !.buf = WriteAt(@, off, bytes),
                    !.log = Append(@, <<off, Len(bytes)>>)]

\* buffer.write(string, off, 'ascii'): what does not fit is not written; it
\* throws when off is past the end
PutBytes(st, off, bytes) ==
    IF st.thrown # "" THEN st
    ELSE IF off > Len(st.buf) THEN [st EXCEPT !.thrown = "RangeError"]
    ELSE [st EXCEPT !.buf = WriteAt(@, off, bytes),
                    !.log = Append(@, <<off, Len(bytes)>>)]

\* source.copy(buffer, off): what does not fit is not copied; it never throws
CopyBytes(st, off, bytes) ==
    IF st.thrown # "" \/ off >= Len(st.buf) THEN st
    ELSE [st EXCEPT !.buf = WriteAt(@, off, bytes),
                    !.log = Append(@, <<off, Min(Len(bytes), Len(st.buf) - off)>>)]

\* offset += n
Advance(st, n) == IF st.thrown # "" THEN st ELSE [st EXCEPT !.offset = @ + n]

\* buffer.writeXxxLE(value, offset); offset += the width of the value
WriteNumber(st, bytes) == Advance(PutNumber(st, st.offset, bytes), Len(bytes))

\* buffer.write(string, offset, 'ascii'); offset += the width of the field
WriteString(st, bytes) == Advance(PutBytes(st, st.offset, bytes), Len(bytes))

\* reject(reason): only the first settles the promise
Reject(st, reason) ==
    IF st.thrown # "" \/ st.rejected # "" THEN st ELSE [st EXCEPT !.rejected = reason]

\* lines 344-359: the fixed header, then offset = 138
EncHeader(st0, lvl) ==
    LET s1 == PutBytes(st0, 0, StrPOT14)
        s2 == PutNumber(s1, 5, U16Bytes(lvl.link[2]))
        s3 == PutNumber(s2, 7, U32Bytes(lvl.link))
        s4 == PutNumber(s3, 11, IntegrityBytes(lvl.integrity[1]))
        s5 == PutNumber(s4, 19, IntegrityBytes(lvl.integrity[2]))
        s6 == PutNumber(s5, 27, IntegrityBytes(lvl.integrity[3]))
        s7 == PutNumber(s6, 35, IntegrityBytes(lvl.integrity[4]))
        s8 == PutBytes(s7, 43, nullpadString(lvl.name, 51))
        s9 == PutBytes(s8, 94, nullpadString(lvl.lgr, 16))
        s10 == PutBytes(s9, 110, nullpadString(lvl.ground, 10))
        s11 == PutBytes(s10, 120, nullpadString(lvl.sky, 10))
        s12 == PutNumber(s11, 130, DoubleBytes(Len(lvl.polygons) * DblUnit + CountBias))
    IN  Advance(s12, 138)

RECURSIVE EncVertices(_, _, _)
\* polygon.vertices.forEach from vertex i on; an exception ends it
EncVertices(st, vertices, i) ==
    IF st.thrown # "" \/ i > Len(vertices) THEN st
    ELSE EncVertices(WriteNumber(WriteNumber(st, DoubleBytes(vertices[i].x)),
                                 DoubleBytes(vertices[i].y)),
                     vertices, i + 1)

\* the callback of this.polygons.forEach
EncPolygon(st, polygon) ==
    EncVertices(WriteNumber(WriteNumber(st, I32Bytes(IF polygon.grass THEN 1 ELSE 0)),
                            I32Bytes(Len(polygon.vertices))),
                polygon.vertices, 1)

RECURSIVE EncPolygons(_, _, _)
\* this.polygons.forEach from polygon i on
EncPolygons(st, polygons, i) ==
    IF st.thrown # "" \/ i > Len(polygons) THEN st
    ELSE EncPolygons(EncPolygon(st, polygons[i]), polygons, i + 1)

\* the switch on object.type, and on object.gravity of an apple: the codes
\* written, or the rejection
ObjectCodes(object) ==
    CASE object.type = "exit"   -> [err |-> "", type |-> 1, gravity |-> 0, animation |-> 0]
      [] object.type = "killer" -> [err |-> "", type |-> 3, gravity |-> 0, animation |-> 0]
      [] object.type = "start"  -> [err |-> "", type |-> 4, gravity |-> 0, animation |-> 0]
      [] object.type = "apple"  ->
            LET g == CASE object.gravity = "normal" -> 0
                       [] object.gravity = "up"     -> 1
                       [] object.gravity = "down"   -> 2
                       [] object.gravity = "left"   -> 3
                       [] object.gravity = "right"  -> 4
                       [] OTHER                     -> -1
            IN  IF g = -1
                THEN [err |-> "Invalid gravity", type |-> 2, gravity |-> 0, animation |-> 0]
                ELSE [err |-> "", type |-> 2, gravity |-> g,
                      animation |-> object.animation - 1]
      [] OTHER -> [err |-> "Invalid object value", type |-> 0, gravity |-> 0, animation |-> 0]

\* the five writes of an object whose codes are c
EncObjectFields(st, object, c) ==
    LET s1 == WriteNumber(st, DoubleBytes(object.x))
        s2 == WriteNumber(s1, DoubleBytes(object.y))
        s3 == WriteNumber(s2, I32Bytes(c.type))
        s4 == WriteNumber(s3, I32Bytes(c.gravity))
    IN  WriteNumber(s4, I32Bytes(c.animation))

\* the callback of this.objects.forEach: a rejection returns from the
\* callback only, before anything of the object is written
EncObject(st, object) ==
    IF ObjectCodes(object).err # "" THEN Reject(st, ObjectCodes(object).err)
    ELSE EncObjectFields(st, object, ObjectCodes(object))

RECURSIVE EncObjects(_, _, _)
\* this.objects.forEach from object i on
EncObjects(st, objects, i) ==
    IF st.thrown # "" \/ i > Len(objects) THEN st
    ELSE EncObjects(EncObject(st, objects[i]), objects, i + 1)

\* the switch on picture.clip: the code, -1 for the rejection
ClipCode(clip) ==
    CASE clip = "unclipped" -> 0
      [] clip = "ground"    -> 1
      [] clip = "sky"       -> 2
      [] OTHER              -> -1

\* the callback of this.pictures.forEach: the rejection comes after the
\* strings, the position and the distance are written
EncPicture(st, picture) ==
    LET s1 == WriteString(st, nullpadString(picture.name, 10))
        s2 == WriteString(s1, nullpadString(picture.texture, 10))
        s3 == WriteString(s2, nullpadString(picture.mask, 10))
        s4 == WriteNumber(s3, DoubleBytes(picture.x))
        s5 == WriteNumber(s4, DoubleBytes(picture.y))
        s6 == WriteNumber(s5, I32Bytes(picture.distance))
    IN  IF ClipCode(picture.clip) = -1 THEN Reject(s6, "Invalid clip value")
        ELSE WriteNumber(s6, I32Bytes(ClipCode(picture.clip)))

RECURSIVE EncPictures(_, _, _)
\* this.pictures.forEach from picture i on
EncPictures(st, pictures, i) ==
    IF st.thrown # "" \/ i > Len(pictures) THEN st
    ELSE EncPictures(EncPicture(st, pictures[i]), pictures, i + 1)

\* this._top10ToBuffer().copy(buffer, offset); offset += 688
EncTop10(st, lvl) ==
    IF st.thrown # "" THEN st
    ELSE [Advance(CopyBytes(st, st.offset,
                            top10ToBuffer(SortByTime(lvl.top10.single),
                                          SortByTime(lvl.top10.multi))), 688)
            EXCEPT !.top10 = TRUE]

\* lines 359-471 of the executor, from the header to the end of file marker
EncBody(lvl) ==
    LET s1 == EncPolygons(EncHeader(EncStart(lvl), lvl), lvl.polygons, 1)
        s2 == WriteNumber(s1, DoubleBytes(Len(lvl.objects) * DblUnit + CountBias))
        s3 == EncObjects(s2, lvl.objects, 1)
        s4 == WriteNumber(s3, DoubleBytes(Len(lvl.pictures) * DblUnit + PictureBias))
        s5 == EncPictures(s4, lvl.pictures, 1)
        s6 == WriteNumber(s5, I32Bytes(EOD_MARKER))
        s7 == EncTop10(s6, lvl)
    IN  PutNumber(s7, s7.offset, I32Bytes(EOF_MARKER))

\* what _update leaves, given this with its integrity recomputed and the
\* state st its executor ended in:
\*   level   this afterwards (the score lists sorted in place when
\*           _top10ToBuffer was called)
\*   outcome "resolved", or what the promise was rejected with
\*   buffer  the Buffer of the executor; writes: its writes in order
Settle(this, st) ==
    [level   |-> IF st.top10
                 THEN [this EXCEPT !.top10.single = SortByTime(@),
                                   !.top10.multi = SortByTime(@)]
                 ELSE this,
     outcome |-> IF st.rejected # "" THEN st.rejected
                 ELSE IF st.thrown # "" THEN st.thrown
                 ELSE "resolved",
     buffer  |-> st.buf,
     writes  |-> st.log]

\* this after this._calculateIntegrity() with its three random draws
WithIntegrity(lvl, r1, r2, r3) ==
    [lvl EXCEPT !.integrity = calculateIntegrity(lvl, r1, r2, r3)]

\* the executor of _update on this
Executor(this) ==
    IF this.version # "Elma"
    THEN [level |-> this, outcome |-> "Only Elma levels are supported",
          buffer |-> Alloc(bufferSize(this)), writes |-> <<>>]
    ELSE Settle(this, EncBody(this))

\* Level._update with the three random draws of _calculateIntegrity
update(lvl, r1, r2, r3) == Executor(WithIntegrity(lvl, r1, r2, r3))

----------------------------------------------------------------------------
(* Level._parseFile: the decoder                                           *)

\* The state of the executor of _parseFile: this, the offset variable, the
\* counts computed so far (polyCount, objectCount, picCount), and err: "" while
\* it runs, else the rejection or the exception that ended it.
Throw(st) == [st EXCEPT !.err = "RangeError"]

\* lines 79-100: link, integrity sums and the four strings
DecHeader(buf, st) ==
    IF ~CanRead(buf, 7, 4) THEN Throw(st)
    ELSE
    LET t0 == [st EXCEPT !.this.link = ReadUInt32LE(buf, 7)]
        Sum(t, i) == IF t.err # "" THEN t
                     ELSE IF ~CanRead(buf, 11 + 8 * i, 8) THEN Throw(t)
                     ELSE [t EXCEPT !.this.integrity[i + 1] =
                                        ReadIntegrityLE(buf, 11 + 8 * i)]
        t4 == Sum(Sum(Sum(Sum(t0, 0), 1), 2), 3)
    IN  IF t4.err # "" THEN t4
        ELSE [t4 EXCEPT !.this.name   = trimString(Slice(buf, 43, 43 + 51)),
                        !.this.lgr    = trimString(Slice(buf, 94, 94 + 16)),
                        !.this.ground = trimString(Slice(buf, 110, 110 + 10)),
                        !.this.sky    = trimString(Slice(buf, 120, 120 + 10)),
                        !.offset      = 130]

\* let count = buffer.readDoubleLE(offset) - bias; offset += 8; i = 0
DecCount(buf, st, bias) ==
    IF st.err # "" THEN st
    ELSE IF ~CanRead(buf, st.offset, 8) THEN Throw(st)
    ELSE [st EXCEPT !.counts = Append(@, ReadDoubleLE(buf, st.offset) - bias),
                    !.offset = @ + 8,
                    !.i = 0]

\* one pass of the vertex loop on vs = [err, offset, j, vertices]
DecVertex(buf, vs) ==
    IF ~CanRead(buf, vs.offset, 16) THEN [vs EXCEPT !.err = "RangeError"]
    ELSE [vs EXCEPT !.vertices = Append(@, [x |-> ReadDoubleLE(buf, vs.offset),
                                            y |-> ReadDoubleLE(buf, vs.offset + 8)]),
                    !.offset = @ + 16,
                    !.j = @ + 1]

RECURSIVE DecVertices(_, _, _, _)
\* for (; j < vertexCount; j++) until a read throws: at most n passes
DecVertices(buf, vertexCount, vs, n) ==
    IF vs.err # "" \/ ~(vs.j < vertexCount) \/ n = 0 THEN vs
    ELSE IF n = 1 THEN DecVertex(buf, vs)
    ELSE DecVertices(buf, vertexCount,
                     DecVertices(buf, vertexCount, vs, n \div 2), n - n \div 2)

\* one pass of the polygon loop; a pass that runs to its end moves the
\* offset, so Len(buf) passes of a loop are never all run
DecPolygon(buf, st) ==
    IF ~CanRead(buf, st.offset, 8) THEN Throw(st)
    ELSE LET vs == DecVertices(buf, ReadInt32LE(buf, st.offset + 4),
                               [err |-> "", offset |-> st.offset + 8, j |-> 0,
                                vertices |-> <<>>],
                               Len(buf))
         IN  IF vs.err # "" THEN Throw(st)
             ELSE [st EXCEPT
                     !.this.polygons =
                         Append(@, [grass |-> ReadInt32LE(buf, st.offset) # 0,
                                    vertices |-> vs.vertices]),
                     !.offset = vs.offset,
                     !.i = @ + 1]

\* a variant of ObjectType whose default branch yields an exit
ObjectTypeDefaulting(objType) ==
    CASE objType = 1 -> "exit"
      [] objType = 2 -> "apple"
      [] objType = 3 -> "killer"
      [] objType = 4 -> "start"
      [] OTHER       -> "exit"

\* the switch on objType: the type, "" for the default branch
ObjectType(objType) ==
    CASE objType = 1 -> "exit"
      [] objType = 2 -> "apple"
      [] objType = 3 -> "killer"
      [] objType = 4 -> "start"
      [] OTHER       -> ""

\* the switch on gravity of an apple: the gravity, "" for the default branch
Gravity(gravity) ==
    CASE gravity = 0 -> "normal"
      [] gravity = 1 -> "up"
      [] gravity = 2 -> "down"
      [] gravity = 3 -> "left"
      [] gravity = 4 -> "right"
      [] OTHER       -> ""

\* the switch on clip: the clip, "" for the default branch
Clip(clip) ==
    CASE clip = 0 -> "unclipped"
      [] clip = 1 -> "ground"
      [] clip = 2 -> "sky"
      [] OTHER    -> ""

\* one pass of the object loop
DecObject(buf, st) ==
    IF ~CanRead(buf, st.offset, 28) THEN Throw(st)
    ELSE LET x == ReadDoubleLE(buf, st.offset)
             y == ReadDoubleLE(buf, st.offset + 8)
             objType == ReadInt32LE(buf, st.offset + 16)
             gravity == ReadInt32LE(buf, st.offset + 20)
             animation == ReadInt32LE(buf, st.offset + 24) + 1
             Push(object) == [st EXCEPT !.this.objects = Append(@, object),
                                        !.offset = @ + 28,
                                        !.i = @ + 1]
         IN  IF ObjectType(objType) = ""
             THEN [st EXCEPT !.err = "Invalid object value"]
             ELSE IF ObjectType(objType) # "apple"
             THEN Push([x |-> x, y |-> y, type |-> ObjectType(objType)])
             ELSE IF Gravity(gravity) = ""
             THEN [st EXCEPT !.err = "Invalid gravity value"]
             ELSE Push([x |-> x, y |-> y, type |-> "apple",
                        gravity |-> Gravity(gravity), animation |-> animation])

\* one pass of the picture loop; the strings are slices, which never throw
DecPicture(buf, st) ==
    IF ~CanRead(buf, st.offset + 30, 24) THEN Throw(st)
    ELSE LET clip == ReadInt32LE(buf, st.offset + 50)
         IN  IF Clip(clip) = "" THEN [st EXCEPT !.err = "Invalid clip value"]
             ELSE [st EXCEPT
                     !.this.pictures =
                         Append(@, [name     |-> trimString(Slice(buf, st.offset, st.offset + 10)),
                                    texture  |-> trimString(Slice(buf, st.offset + 10, st.offset + 20)),
                                    mask     |-> trimString(Slice(buf, st.offset + 20, st.offset + 30)),
                                    x        |-> ReadDoubleLE(buf, st.offset + 30),
                                    y        |-> ReadDoubleLE(buf, st.offset + 38),
                                    distance |-> ReadInt32LE(buf, st.offset + 46),
                                    clip     |-> Clip(clip)]),
                     !.offset = @ + 54,
                     !.i = @ + 1]

\* the pass of the loop named kind
DecPass(buf, st, kind) ==
    CASE kind = "polygons" -> DecPolygon(buf, st)
      [] kind = "objects"  -> DecObject(buf, st)
      [] kind = "pictures" -> DecPicture(buf, st)

RECURSIVE DecLoop(_, _, _, _)
\* for (; i < count; i++) of the loop named kind, count being the last of
\* st.counts, until a pass rejects or throws: at most n passes from st
DecLoop(buf, st, kind, n) ==
    IF st.err # "" \/ ~(st.i * DblUnit < st.counts[Len(st.counts)]) \/ n = 0 THEN st
    ELSE IF n = 1 THEN DecPass(buf, st, kind)
    ELSE DecLoop(buf, DecLoop(buf, st, kind, n \div 2), kind, n - n \div 2)

\* lines 215-232: the end of data marker, the score lists, the end of file
\* marker
DecTail(buf, st) ==
    IF st.err # "" THEN st
    ELSE IF ~CanRead(buf, st.offset, 4) THEN Throw(st)
    ELSE IF ReadInt32LE(buf, st.offset) # EOD_MARKER
         THEN [st EXCEPT !.err = "End of data marker error"]
    ELSE LET top10Data == cryptTop10(Slice(buf, st.offset + 4, st.offset + 4 + 688))
             single == parseTop10(Slice(top10Data, 0, 344))
             multi == parseTop10(Slice(top10Data, 344, Len(top10Data)))
             t1 == [st EXCEPT !.this.top10.single = single.output]
             t2 == [t1 EXCEPT !.this.top10.multi = multi.output,
                              !.offset = st.offset + 4 + 688]
         IN  IF single.err # "" THEN Throw(st)
             ELSE IF multi.err # "" THEN Throw(t1)
             ELSE IF ~CanRead(buf, t2.offset, 4) THEN Throw(t2)
             ELSE IF ReadInt32LE(buf, t2.offset) # EOF_MARKER
                  THEN [t2 EXCEPT !.err = "End of file marker error"]
             ELSE [t2 EXCEPT !.err = "resolved"]

\* Level._parseFile on this: [this, err, counts, ..]; err is "resolved" or
\* what the promise was rejected with
parseFile(this, buf) ==
    LET st0 == [this |-> this, offset |-> 0, i |-> 0, counts |-> <<>>, err |-> ""]
        version == AsciiDecode(Slice(buf, 0, 5))
    IN  IF version = StrPOT06 THEN [st0 EXCEPT !.err = "Across levels are not supported"]
        ELSE IF version # StrPOT14 THEN [st0 EXCEPT !.err = "Not valid Elma level."]
        ELSE LET s1 == DecHeader(buf, [st0 EXCEPT !.this.version = "Elma"])
                 s2 == DecLoop(buf, DecCount(buf, s1, CountBias), "polygons", Len(buf))
                 s3 == DecLoop(buf, DecCount(buf, s2, CountBias), "objects", Len(buf))
                 s4 == DecLoop(buf, DecCount(buf, s3, PictureBias), "pictures", Len(buf))
             IN  DecTail(buf, s4)

----------------------------------------------------------------------------
(* What the application puts into a Level between construction and save    *)

MaxEdits == 2

MaxScores == 12

\* Math.floor(Math.random() * (2^32 - 1)): the greatest link generateLink can
\* draw, 2^32 - 2
LinkValues == {<<65535, 65534>>}

\* a string of n letters
Letters(n) == SubSeq([i \in 1..n |-> 65 + (i % 26)], 1, n)

GrassPolygon ==
    [grass |-> TRUE,
     vertices |-> << [x |-> 15000000, y |-> -20000000], [x |-> 1, y |-> 25000000] >>]

UpApple ==
    [x |-> 10000000, y |-> -5000000, type |-> "apple", gravity |-> "up", animation |-> 3]

SkyPicture ==
    [name |-> Letters(10), texture |-> <<>>, mask |-> <<109>>,
     x |-> -10000000, y |-> 5, distance |-> -5, clip |-> "sky"]

PolygonValues == {GrassPolygon}

\* an apple, an apple whose gravity is no gravity, an object of no known type
ObjectValues ==
    { UpApple,
      [x |-> 10000000, y |-> 10000000, type |-> "apple", gravity |-> "none", animation |-> 1],
      [x |-> 0, y |-> 20000000, type |-> "flower"] }

\* a picture, and a picture whose clip is no clip
PictureValues ==
    { SkyPicture,
      [name |-> <<113>>, texture |-> <<>>, mask |-> <<>>,
       x |-> 0, y |-> 0, distance |-> 600, clip |-> "water"] }

ScorePatterns == {"asc", "ties", "high"}

\* entry i of a score list: times ascending, times unsorted with ties, or
\* times ascending from 2^31 on; the names tell the entries apart
ScoreEntry(i, pattern) ==
    [time  |-> CASE pattern = "asc"  -> <<0, 100 * i>>
                 [] pattern = "ties" -> <<0, (i * 7) % 4>>
                 [] pattern = "high" -> <<32768 + i, 0>>,
     name1 |-> IF i = 1 THEN SubSeq([k \in 1..15 |-> 65], 1, 15) ELSE <<64 + i>>,
     name2 |-> IF i % 2 = 0 THEN <<96 + i>> ELSE <<>>]

ScoreList(n, pattern) == SubSeq([i \in 1..n |-> ScoreEntry(i, pattern)], 1, n)

ScoreLists == {ScoreList(n, p) : n \in {3, 10, MaxScores}, p \in ScorePatterns}

MultiLists == {ScoreList(3, "asc"), ScoreList(3, "ties"), ScoreList(MaxScores, "ties")}

----------------------------------------------------------------------------
(* Saving and loading                                                      *)

fileVars == <<buffer, saved, writes, tamper, loaded, result, counts>>

cryptVars == <<data, input, calls>>

top10Vars == <<half, parsed>>

NoFile ==
    /\ buffer = <<>>
    /\ saved = "none"
    /\ writes = <<>>
    /\ tamper = [kind |-> "none"]
    /\ loaded = EmptiedLevel
    /\ result = "none"
    /\ counts = <<>>

NoCrypt == data = <<>> /\ input = <<>> /\ calls = 0

NoTop10 == half = <<>> /\ parsed = [done |-> FALSE]

\* let level = new Level()
Init ==
    /\ level = NewLevel
    /\ pre = NewLevel
    /\ edits = 0
    /\ NoFile
    /\ NoCrypt
    /\ NoTop10

\* a direct mutation of the Level, before it is saved
Edit(new) ==
    /\ saved = "none"
    /\ edits < MaxEdits
    /\ new # level
    /\ level' = new
    /\ edits' = edits + 1
    /\ UNCHANGED <<pre, fileVars, cryptVars, top10Vars>>

\* Level.generateLink
GenerateLink == \E l \in LinkValues : Edit([level EXCEPT !.link = l])

SetStrings ==
    Edit([level EXCEPT !.name = Letters(51), !.lgr = Letters(16),
                       !.ground = <<>>, !.sky = Letters(10)])

SetVersion == Edit([level EXCEPT !.version = "Across"])

AddPolygon == \E p \in PolygonValues : Edit([level EXCEPT !.polygons = Append(@, p)])

AddObject == \E o \in ObjectValues : Edit([level EXCEPT !.objects = Append(@, o)])

AddPicture == \E p \in PictureValues : Edit([level EXCEPT !.pictures = Append(@, p)])

SetSingle == \E l \in ScoreLists : Edit([level EXCEPT !.top10.single = l])

SetMulti == \E l \in MultiLists : Edit([level EXCEPT !.top10.multi = l])

\* Level.toBuffer: _update, with the random draws of _calculateIntegrity
ToBuffer ==
    /\ saved = "none"
    /\ \E r1 \in RandomInts(0, 5871), r2 \in RandomInts(0, 5871),
          r3 \in RandomInts(0, 6102) :
            \E u \in {update(level, r1, r2, r3)} :
                /\ level' = u.level
                /\ saved' = u.outcome
                /\ buffer' = IF u.outcome = "resolved" THEN u.buffer ELSE <<>>
                /\ writes' = u.writes
    /\ pre' = level
    /\ UNCHANGED <<edits, tamper, loaded, result, counts, cryptVars, top10Vars>>

\* Level.load on the file: _parseFile on a new Level whose polygons and objects
\* were emptied
Load ==
    /\ saved = "resolved"
    /\ result = "none"
    /\ \E p \in {parseFile(EmptiedLevel, buffer)} :
           /\ loaded' = p.this
           /\ result' = p.err
           /\ counts' = p.counts
    /\ UNCHANGED <<level, edits, pre, buffer, saved, writes, tamper, cryptVars, top10Vars>>

Next ==
    \/ GenerateLink
    \/ SetStrings
    \/ SetVersion
    \/ AddPolygon
    \/ AddObject
    \/ AddPicture
    \/ SetSingle
    \/ SetMulti
    \/ ToBuffer
    \/ Load

Spec == Init /\ [][Next]_vars

----------------------------------------------------------------------------
(* Loading a file that was changed after it was saved                      *)

\* a saved level with two polygons, an apple, a picture and scores
RichLevel ==
    [NewLevel EXCEPT !.polygons = Append(@, GrassPolygon),
                     !.objects = Append(@, UpApple),
                     !.pictures = <<SkyPicture>>,
                     !.top10.single = ScoreList(3, "asc")]

FileLevels == {NewLevel, RichLevel}

\* a file on disk: what toBuffer resolved with for one of FileLevels
InitDecode ==
    /\ \E lvl \in FileLevels, r1 \in RandomInts(0, 5871), r2 \in RandomInts(0, 5871),
          r3 \in RandomInts(0, 6102) :
            \E u \in {update(lvl, r1, r2, r3)} :
                /\ pre = lvl
                /\ level = u.level
                /\ buffer = u.buffer
                /\ saved = u.outcome
                /\ writes = u.writes
    /\ edits = 0
    /\ tamper = [kind |-> "none"]
    /\ loaded = EmptiedLevel
    /\ result = "none"
    /\ counts = <<>>
    /\ NoCrypt
    /\ NoTop10

\* where the records of the saved level are in its file
ObjectCountOffset == 138 + PolygonBytes(pre.polygons, 1)

ObjectOffset(i) == ObjectCountOffset + 8 + 28 * (i - 1)

PictureCountOffset == ObjectCountOffset + 8 + 28 * Len(pre.objects)

PictureOffset(i) == PictureCountOffset + 8 + 54 * (i - 1)

Top10Offset == PictureCountOffset + 8 + 54 * Len(pre.pictures) + 4

\* one change of the file, made once, before it is loaded
Tamper(what, bytes) ==
    /\ saved = "resolved"
    /\ result = "none"
    /\ tamper.kind = "none"
    /\ tamper' = what
    /\ buffer' = bytes
    /\ UNCHANGED <<level, edits, pre, saved, writes, loaded, result, counts,
                   cryptVars, top10Vars>>

\* format tags: POT06, POT15, five null bytes, and POT14 and POT06 with the
\* high bit of one byte set
TagValues ==
    { StrPOT06, <<80, 79, 84, 49, 53>>, <<0, 0, 0, 0, 0>>,
      <<208, 79, 84, 49, 52>>, <<80, 79, 84, 48, 182>> }

TamperTag ==
    \E tag \in TagValues :
        Tamper([kind |-> "tag", value |-> tag], WriteAt(buffer, 0, tag))

\* what is added to a stored count: a little and a lot, below and above
CountDeltas == {-7000000, -3000000, -1, 1, 3000000}

TamperCount ==
    \E which \in {"polygons", "objects", "pictures"}, d \in CountDeltas :
        LET off == CASE which = "polygons" -> 130
                     [] which = "objects"  -> ObjectCountOffset
                     [] which = "pictures" -> PictureCountOffset
        IN  Tamper([kind |-> "count", which |-> which, delta |-> d],
                   WriteAt(buffer, off, DoubleBytes(ReadDoubleLE(buffer, off) + d)))

\* codes inside and outside every enumeration of the format
CodeValues == {-1, 0, 2, 3, 5, 7, 9}

TamperObject ==
    \E i \in 1..Len(pre.objects), field \in {"type", "gravity", "animation"},
       code \in CodeValues :
        LET off == ObjectOffset(i) + CASE field = "type"      -> 16
                                       [] field = "gravity"   -> 20
                                       [] field = "animation" -> 24
        IN  Tamper([kind |-> "object", index |-> i, field |-> field, value |-> code],
                   WriteAt(buffer, off, I32Bytes(code)))

TamperClip ==
    \E i \in 1..Len(pre.pictures), code \in CodeValues :
        Tamper([kind |-> "clip", index |-> i, value |-> code],
               WriteAt(buffer, PictureOffset(i) + 50, I32Bytes(code)))

\* lengths a file is cut to: inside the tag, inside the name, before the first
\* count, inside the records, inside and between the score halves, inside
\* the end of file marker
CutLengths ==
    { 0, 4, 5, 9, 60, 130, 137, 150,
      Top10Offset - 4, Top10Offset + 2, Top10Offset + 100, Top10Offset + 344,
      Top10Offset + 500, Top10Offset + 688, Len(buffer) - 1 }

Truncate ==
    \E n \in CutLengths :
        /\ n < Len(buffer)
        /\ Tamper([kind |-> "truncate", length |-> n], SubSeq(buffer, 1, n))

NextDecode ==
    \/ TamperTag
    \/ TamperCount
    \/ TamperObject
    \/ TamperClip
    \/ Truncate
    \/ Load

SpecDecode == InitDecode /\ [][NextDecode]_vars

----------------------------------------------------------------------------
(* cryptTop10 and _parseTop10 on their own                                 *)

MaxCalls == 2

MaxStride == 11

\* 688 bytes: byte i is a * i + b
CryptInput(a, b) == SubSeq([i \in 1..688 |-> (a * i + b) % 256], 1, 688)

InitCrypt ==
    /\ \E a \in 0..MaxStride, b \in {0, 77, 255} : data = CryptInput(a, b)
    /\ input = data
    /\ calls = 0
    /\ level = NewLevel
    /\ pre = NewLevel
    /\ edits = 0
    /\ NoFile
    /\ NoTop10

\* data = Level.cryptTop10(data)
CryptTop10 ==
    /\ calls < MaxCalls
    /\ data' = cryptTop10(data)
    /\ calls' = calls + 1
    /\ UNCHANGED <<input, level, edits, pre, fileVars, top10Vars>>

NextCrypt == CryptTop10

SpecCrypt == InitCrypt /\ [][NextCrypt]_vars

\* values of the entry count field of a half
CountValues == {-1, 0, 1, 9, 10, 11, 12, 85, 86, 2147483647}

\* a decrypted half: a list as _top10ToBuffer lays it out, with any value in
\* its entry count field
InitTop10 ==
    /\ \E l \in ScoreLists, c \in CountValues :
            half = WriteAt(top10Half(SortByTime(l)), 0, I32Bytes(c))
    /\ parsed = [done |-> FALSE]
    /\ level = NewLevel
    /\ pre = NewLevel
    /\ edits = 0
    /\ NoFile
    /\ NoCrypt

\* this._parseTop10(half)
ParseTop10 ==
    /\ ~parsed.done
    /\ \E p \in {parseTop10(half)} :
           parsed' = [done |-> TRUE, err |-> p.err, output |-> p.output]
    /\ UNCHANGED <<half, level, edits, pre, fileVars, cryptVars>>

NextTop10 == ParseTop10

SpecTop10 == InitTop10 /\ [][NextTop10]_vars

----------------------------------------------------------------------------
(* Vocabulary of the properties                                            *)

ObjectTypes == {"exit", "apple", "killer", "start"}

Gravities == {"normal", "up", "down", "left", "right"}

Clips == {"unclipped", "ground", "sky"}

\* list is in ascending order of time
Ascending(list) ==
    \A i \in 1..Len(list) : \A j \in 1..Len(list) :
        i < j => ~WideLess(list[j].time, list[i].time)

\* a score list as a file can hold it: at most 10 entries, ascending, names
\* within their width
ValidScores(list) ==
    /\ Len(list) <= 10
    /\ Ascending(list)
    /\ \A i \in 1..Len(list) : Len(list[i].name1) <= 15 /\ Len(list[i].name2) <= 15

\* a validly constructed Level
Valid(lvl) ==
    /\ lvl.version = "Elma"
    /\ Len(lvl.name) <= 51 /\ Len(lvl.lgr) <= 16
    /\ Len(lvl.ground) <= 10 /\ Len(lvl.sky) <= 10
    /\ \A i \in 1..Len(lvl.objects) :
        /\ lvl.objects[i].type \in ObjectTypes
        /\ lvl.objects[i].type = "apple" => lvl.objects[i].gravity \in Gravities
    /\ \A i \in 1..Len(lvl.pictures) :
        /\ lvl.pictures[i].clip \in Clips
        /\ Len(lvl.pictures[i].name) <= 10
        /\ Len(lvl.pictures[i].texture) <= 10
        /\ Len(lvl.pictures[i].mask) <= 10
    /\ ValidScores(lvl.top10.single)
    /\ ValidScores(lvl.top10.multi)

\* a and b are equal in every field except integrity
SameExceptIntegrity(a, b) ==
    /\ a.version = b.version /\ a.link = b.link
    /\ a.name = b.name /\ a.lgr = b.lgr /\ a.ground = b.ground /\ a.sky = b.sky
    /\ a.polygons = b.polygons
    /\ a.objects = b.objects
    /\ a.pictures = b.pictures
    /\ a.top10.single = b.top10.single
    /\ a.top10.multi = b.top10.multi

\* the number of entries of list that come before entry i in ascending order
\* of time, entries of equal time in input order
Rank(list, i) ==
    Cardinality({j \in 1..Len(list) :
                    \/ WideLess(list[j].time, list[i].time)
                    \/ (list[j].time = list[i].time /\ j < i)})

\* decoded holds the up to 10 entries of original with the lowest times, in
\* ascending order of time, ties in input order
LowestTen(decoded, original) ==
    /\ Len(decoded) = Min(10, Len(original))
    /\ \A i \in 1..Len(original) :
        Rank(original, i) < 10 => decoded[Rank(original, i) + 1] = original[i]

\* d rounded to the nearest integer
Round(d) == (d + DblUnit \div 2) \div DblUnit

\* the size the layout gives a file of lvl
PolygonLayout(p) == 8 + 16 * Len(p.vertices)

LayoutSize(lvl) ==
    850 + SumFrom([k \in 1..Len(lvl.polygons) |-> PolygonLayout(lvl.polygons[k])], 1)
        + 28 * Len(lvl.objects) + 54 * Len(lvl.pictures)

\* the first ten key bytes (key1 & 0xFF) of the recurrence of the cipher
FirstKeyBytes == <<21, 5, 106, 183, 137, 237, 89, 196, 72, 255>>

----------------------------------------------------------------------------
(* The properties                                                          *)

\* C1: decoding the buffer that toBuffer resolved with for a valid Level (score
\* times and link anywhere in the uint32 range) resolves with a Level equal to
\* the original in every field except integrity.
C1_RoundTrip ==
    (saved = "resolved" /\ tamper.kind = "none" /\ result # "none" /\ Valid(pre))
        => (result = "resolved" /\ SameExceptIntegrity(loaded, pre))

\* C2: cryptTop10 applied an even number of times to a 688-byte input gives
\* the input back, and applied an odd number of times it gives the input with
\* byte i xored with a key byte that is the same for every input and every
\* call: the one the recurrence gives for position i.
C2_CipherInvolution ==
    /\ Len(data) = 688
    /\ calls % 2 = 0 => data = input
    /\ calls % 2 = 1 =>
        /\ \A i \in 1..688 : data[i] = XorByte(input[i], cryptKeys[i] % 256)
        /\ \A i \in 1..10 : data[i] = XorByte(input[i], FirstKeyBytes[i])

C2_Witness == calls = 2 /\ data = input /\ input[1] = 88 /\ input[2] = 99

\* C3: after encode and decode each score list holds the min(10, n) entries of
\* the original list with the lowest times, ascending by time, entries of
\* equal time in their input order.
C3_ScoreCap ==
    (saved = "resolved" /\ tamper.kind = "none" /\ result # "none")
        => /\ result = "resolved"
           /\ LowestTen(loaded.top10.single, pre.top10.single)
           /\ Ascending(loaded.top10.single)
           /\ LowestTen(loaded.top10.multi, pre.top10.multi)
           /\ Ascending(loaded.top10.multi)

\* C4: decode reads round(v - bias) records for a count field v: a decode
\* that resolves holds that many polygons, objects and pictures, and a count
\* field moved by less than half a record decodes as the unmoved file does.
C4_CountRounds ==
    /\ result = "resolved" =>
        /\ Len(loaded.polygons) = Round(counts[1])
        /\ Len(loaded.objects) = Round(counts[2])
        /\ Len(loaded.pictures) = Round(counts[3])
    /\ (tamper.kind = "count" /\ result # "none"
            /\ 2 * tamper.delta < DblUnit /\ 2 * tamper.delta > -DblUnit)
        => (result = "resolved" /\ SameExceptIntegrity(loaded, pre))

\* C5: an object code outside 1..4, a gravity code of an apple outside 0..4
\* and a clip code outside 0..2 each reject the decode with their own error,
\* the record not decoded; with any gravity or animation code in the record
\* of an object that is no apple the decode resolves with the objects that
\* were saved.
C5_EnumRejection ==
    /\ (tamper.kind = "object" /\ result # "none") =>
        /\ (tamper.field = "type" /\ tamper.value \notin 1..4) =>
            /\ result = "Invalid object value"
            /\ Len(loaded.objects) = tamper.index - 1
        /\ (tamper.field = "gravity" /\ pre.objects[tamper.index].type = "apple"
                /\ tamper.value \notin 0..4) =>
            /\ result = "Invalid gravity value"
            /\ Len(loaded.objects) = tamper.index - 1
        /\ (tamper.field \in {"gravity", "animation"}
                /\ pre.objects[tamper.index].type # "apple") =>
            /\ result = "resolved"
            /\ loaded.objects = pre.objects
    /\ (tamper.kind = "clip" /\ result # "none" /\ tamper.value \notin 0..2) =>
        /\ result = "Invalid clip value"
        /\ Len(loaded.pictures) = tamper.index - 1

C5_Witness ==
    /\ tamper.kind = "object" /\ tamper.field = "type" /\ tamper.value = 9
    /\ tamper.index = 2
    /\ result = "Invalid object value"
    /\ Len(loaded.objects) = 1

\* C6: a file whose first 5 bytes are POT06 is rejected as an Across level,
\* one whose first 5 bytes are neither POT14 nor POT06 as no Elma level, and
\* in both cases nothing of the Level was assigned.
C6_TagCheck ==
    (tamper.kind = "tag" /\ result # "none") =>
        /\ tamper.value = StrPOT06 => result = "Across levels are not supported"
        /\ tamper.value \notin {StrPOT06, StrPOT14} => result = "Not valid Elma level."
        /\ loaded = EmptiedLevel

\* C7: the decode of a strict prefix of a valid file fails with the error of a
\* read past the end of the buffer.
C7_TruncatedRejected ==
    (tamper.kind = "truncate" /\ result # "none") => result = "RangeError"

\* C8: after toBuffer, resolved or rejected, the Level is as it was before
\* the call in every field except integrity.
C8_EncodeFrame ==
    saved # "none" => SameExceptIntegrity(level, pre)

\* C9: whatever the entry count field of a half holds, the list _parseTop10
\* returns has at most 10 entries.
C9_DecodedCap ==
    (parsed.done /\ parsed.err = "") => Len(parsed.output) <= 10

\* C10: the buffer of an encode that resolved has the size of the layout, and
\* the writes, in the order made, tile it: the first at offset 0, each next
\* one where the one before ended, the last one the 4 bytes of the end of
\* file marker at the end of the buffer.
C10_ExactFill ==
    saved = "resolved" =>
        /\ Len(buffer) = LayoutSize(pre)
        /\ writes # <<>>
        /\ writes[1][1] = 0
        /\ \A i \in 1..(Len(writes) - 1) :
            /\ writes[i][2] > 0
            /\ writes[i + 1][1] = writes[i][1] + writes[i][2]
        /\ writes[Len(writes)] = <<Len(buffer) - 4, 4>>
        /\ SubSeq(buffer, Len(buffer) - 3, Len(buffer)) = I32Bytes(EOF_MARKER)

C10_Witness ==
    /\ saved = "resolved"
    /\ Len(pre.polygons) = 2 /\ Len(pre.objects) = 2 /\ Len(pre.pictures) = 1
    /\ Len(buffer) = 850 + (8 + 16 * 4) + (8 + 16 * 2) + 28 * 2 + 54

====
